---- MODULE Spec2Model ----
(* Model of src/load_issues.py: create_issues(), the one-shot importer that  *)
(* reads issues/ui-issues-complete.json, creates every referenced label with *)
(* `gh label create` and then every issue with `gh issue create`.            *)
EXTENDS Integers, Sequences, FiniteSets, TLC

\* ---------------------------------------------------------------- bounds
MaxIssues == 2
MaxLabels == 2

\* ------------------------------------------------------------- constants
SleepSecs == 2
json_path == "issues/ui-issues-complete.json"

\* ---------------------------------------------------------- input domain
Titles == {"Bug1", "Bug2"}
Bodies == {"desc", "desc2"}
LabelNames == {"bug", "ui"}

LabelArrays == UNION {[1..n -> LabelNames] : n \in 0..MaxLabels}

\* A JSON issue object is a function from its keys; `labels` may be absent.
IssueObjects ==
    {[title |-> t, body |-> b] : t \in Titles, b \in Bodies}
    \cup {[title |-> t, body |-> b, labels |-> ls] :
             t \in Titles, b \in Bodies, ls \in LabelArrays}

Files == UNION {[1..n -> IssueObjects] : n \in 0..MaxIssues}

VARIABLES
    fileState,    \* "missing" | "malformed" | "ok": what is at json_path
    fileContent,  \* the JSON array held by the file when fileState = "ok"
    pc,           \* "start" | "labels" | "issues" | "done" | "raised"
    issues,       \* the parsed list
    all_labels,   \* the label set
    pending,      \* labels the `for label in all_labels` loop has yet to visit
    i,            \* enumerate(issues, 1) index of the next issue
    trace         \* console prints, child processes run and sleeps, in order

vars == <<fileState, fileContent, pc, issues, all_labels, pending, i, trace>>

\* ------------------------------------------------------------ helpers
Range(s) == {s[k] : k \in 1..Len(s)}

PrintEv(kind, arg) == [ev |-> "print", kind |-> kind, arg |-> arg]
RunEv(cmd, rc) == [ev |-> "run", cmd |-> cmd, rc |-> rc]
SleepEv(secs) == [ev |-> "sleep", secs |-> secs]

\* issue.get('labels', [])
GetLabels(issue) ==
    IF "labels" \in DOMAIN issue THEN issue.labels ELSE <<>>

\* all_labels = set(); for issue in issues: all_labels.update(...)
AllLabelsFirstOnly(iss) ==
    UNION {IF Len(GetLabels(iss[k])) = 0 THEN {} ELSE {GetLabels(iss[k])[1]}
              : k \in 1..Len(iss)}

AllLabels(iss) == UNION {Range(GetLabels(iss[k])) : k \in 1..Len(iss)}

\* label_args = []; for label in labels: label_args.extend(['--label', label])
RECURSIVE LabelArgs(_)
LabelArgs(labels) ==
    IF labels = <<>> THEN <<>>
    ELSE <<"--label", Head(labels)>> \o LabelArgs(Tail(labels))

\* cmd = ['gh','issue','create','--title',title,'--body',body] + label_args
IssueCmd(title, body, labels) ==
    <<"gh", "issue", "create", "--title", title, "--body", body>>
        \o LabelArgs(labels)

LabelCmd(label) == <<"gh", "label", "create", label>>

\* where control goes once the label loop has `rest` left to visit
AfterLabelSkipRest(rest, iss) ==
    IF iss = <<>> THEN "done" ELSE "issues"

AfterLabel(rest, iss) ==
    IF rest # {} THEN "labels"
    ELSE IF iss = <<>> THEN "done" ELSE "issues"

\* try: run(check=True); print Success; sleep(2)  except: print Failed
IssueOutcomeSilentFailure(rc, title) ==
    IF rc = 0
    THEN <<PrintEv("Success", "stdout"), SleepEv(SleepSecs)>>
    ELSE <<>>

IssueOutcomeAlwaysSleep(rc, title) ==
    IF rc = 0
    THEN <<PrintEv("Success", "stdout"), SleepEv(SleepSecs)>>
    ELSE <<PrintEv("Failed", <<title, "stderr">>), SleepEv(SleepSecs)>>

IssueOutcome(rc, title) ==
    IF rc = 0
    THEN <<PrintEv("Success", "stdout"), SleepEv(SleepSecs)>>
    ELSE <<PrintEv("Failed", <<title, "stderr">>)>>

\* ---------------------------------------------------------------- Init
Init ==
    /\ fileState \in {"missing", "malformed", "ok"}
    /\ fileContent \in (IF fileState = "ok" THEN Files ELSE {<<>>})
    /\ pc = "start"
    /\ issues = <<>>
    /\ all_labels = {}
    /\ pending = {}
    /\ i = 1
    /\ trace = <<>>

\* -------------------------------------------------------------- actions
\* if not os.path.exists(json_path): print(...); return
FileNotFoundNoReturn ==
    /\ pc = "start"
    /\ fileState = "missing"
    /\ pc' = "raised"
    /\ trace' = Append(trace, PrintEv("NotFound", json_path))
    /\ UNCHANGED <<fileState, fileContent, issues, all_labels, pending, i>>

FileNotFound ==
    /\ pc = "start"
    /\ fileState = "missing"
    /\ pc' = "done"
    /\ trace' = Append(trace, PrintEv("NotFound", json_path))
    /\ UNCHANGED <<fileState, fileContent, issues, all_labels, pending, i>>

\* json.load(f) raises json.JSONDecodeError, which nothing catches
LoadFailsSwallowed ==
    /\ pc = "start"
    /\ fileState = "malformed"
    /\ pc' = "done"
    /\ UNCHANGED <<fileState, fileContent, issues, all_labels, pending, i, trace>>

LoadFails ==
    /\ pc = "start"
    /\ fileState = "malformed"
    /\ pc' = "raised"
    /\ UNCHANGED <<fileState, fileContent, issues, all_labels, pending, i, trace>>

\* issues = json.load(f); collect all_labels; print the two summaries
LoadAndCollect ==
    /\ pc = "start"
    /\ fileState = "ok"
    /\ issues' = fileContent
    /\ all_labels' = AllLabels(issues')
    /\ pending' = all_labels'
    /\ trace' = trace \o <<PrintEv("Found", Len(issues')),
                           PrintEv("Ensuring", all_labels')>>
    /\ pc' = AfterLabel(pending', issues')
    /\ UNCHANGED <<fileState, fileContent, i>>

\* one iteration of `for label in all_labels`: the exit code is ignored
CreateLabel ==
    /\ pc = "labels"
    /\ \E label \in pending, rc \in {0, 1} :
          /\ trace' = Append(trace, RunEv(LabelCmd(label), rc))
          /\ pending' = pending \ {label}
          /\ pc' = AfterLabel(pending', issues)
    /\ UNCHANGED <<fileState, fileContent, issues, all_labels, i>>

\* one iteration of `for i, issue in enumerate(issues, 1)`
CreateIssue ==
    /\ pc = "issues"
    /\ i <= Len(issues)
    /\ "labels" \in DOMAIN issues[i]
    /\ \E rc \in {0, 1} :
          LET issue == issues[i]
              cmd == IssueCmd(issue.title, issue.body, issue.labels)
          IN trace' = trace
                 \o <<PrintEv("Creating", <<i, Len(issues), issue.title>>),
                      RunEv(cmd, rc)>>
                 \o IssueOutcome(rc, issue.title)
    /\ i' = i + 1
    /\ pc' = IF i' > Len(issues) THEN "done" ELSE "issues"
    /\ UNCHANGED <<fileState, fileContent, issues, all_labels, pending>>

\* labels = issue['labels'] raises KeyError when the key is absent
IssueKeyError ==
    /\ pc = "issues"
    /\ i <= Len(issues)
    /\ "labels" \notin DOMAIN issues[i]
    /\ pc' = "raised"
    /\ UNCHANGED <<fileState, fileContent, issues, all_labels, pending, i, trace>>

Next ==
    \/ FileNotFound
    \/ LoadFails
    \/ LoadAndCollect
    \/ CreateLabel
    \/ CreateIssue
    \/ IssueKeyError

Spec == Init /\ [][Next]_vars

\* ------------------------------------------------- reading the trace
IsLabelRun(e) == e.ev = "run" /\ e.cmd[2] = "label"
IsIssueRun(e) == e.ev = "run" /\ e.cmd[2] = "issue"
IsOutcome(e) == e.ev = "print" /\ e.kind \in {"Success", "Failed"}
IsSleep(e) == e.ev = "sleep"

LabelRuns == SelectSeq(trace, IsLabelRun)
IssueRuns == SelectSeq(trace, IsIssueRun)
Outcomes == SelectSeq(trace, IsOutcome)
Sleeps == SelectSeq(trace, IsSleep)

Terminated == pc \in {"done", "raised"}
N == Len(fileContent)

\* the labels array of the k-th object of the file, [] when the key is absent
FileLabels(k) ==
    IF "labels" \in DOMAIN fileContent[k] THEN fileContent[k].labels ELSE <<>>
FileLabelUnion == UNION {Range(FileLabels(k)) : k \in 1..N}

\* the label flags for a labels array, one `--label x` pair per element
Flags(ls) == [p \in 1..(2 * Len(ls)) |->
                 IF p % 2 = 1 THEN "--label" ELSE ls[p \div 2]]
ExpectedCmd(k) ==
    <<"gh", "issue", "create", "--title", fileContent[k].title,
      "--body", fileContent[k].body>> \o Flags(FileLabels(k))

\* ---------------------------------------------------------------- C1
\* C1: a finished run over a file of N issue objects has made exactly N
\* issue-creation invocations, the k-th carrying the title, body and labels
\* of the k-th object.
C1_ExactlyNInOrder ==
    (Terminated /\ fileState = "ok") =>
        /\ Len(IssueRuns) = N
        /\ \A k \in 1..N : IssueRuns[k].cmd = ExpectedCmd(k)

\* ---------------------------------------------------------------- C2
\* C2: an object without a `labels` key behaves as one with `labels: []`:
\* it adds nothing to the label set, gets an issue-creation invocation
\* without label flags, and the run goes on to the following issues.
C2_AbsentLabelsAsEmpty ==
    (Terminated /\ fileState = "ok") =>
        \A k \in 1..N :
            "labels" \notin DOMAIN fileContent[k] =>
                /\ all_labels = FileLabelUnion
                /\ Len(IssueRuns) >= k
                /\ IssueRuns[k].cmd =
                      <<"gh", "issue", "create", "--title",
                        fileContent[k].title, "--body", fileContent[k].body>>
                /\ pc = "done"

\* ---------------------------------------------------------------- C3
\* C3: the labels passed to label-creation are exactly the union of the
\* labels arrays of the file, each passed to exactly one invocation.
C3_LabelsOncePerDistinct ==
    /\ \A p, q \in 1..Len(LabelRuns) :
          LabelRuns[p].cmd = LabelRuns[q].cmd => p = q
    /\ \A p \in 1..Len(LabelRuns) :
          /\ Len(LabelRuns[p].cmd) = 4
          /\ LabelRuns[p].cmd[4] \in FileLabelUnion
    /\ (pc \in {"issues", "done", "raised"} /\ fileState = "ok") =>
          {LabelRuns[p].cmd[4] : p \in 1..Len(LabelRuns)} = FileLabelUnion

C3_Witness ==
    /\ pc = "done"
    /\ N = 2
    /\ FileLabels(1) = <<"ui", "ui">>
    /\ FileLabels(2) = <<"bug", "ui">>
    /\ Len(LabelRuns) = 2

\* ---------------------------------------------------------------- C4
\* C4: with the input file missing the run makes no external invocation
\* and returns normally.
C4_MissingFileNoCalls ==
    fileState = "missing" =>
        /\ pc \in {"start", "done"}
        /\ LabelRuns = <<>>
        /\ IssueRuns = <<>>

C4_Witness ==
    /\ fileState = "missing"
    /\ pc = "done"
    /\ trace = <<PrintEv("NotFound", json_path)>>

\* ---------------------------------------------------------------- C5
\* C5: a failing issue-creation invocation never aborts the batch: in a
\* finished run with failed invocations all N issues have been attempted,
\* in file order.
C5_FailureNeverAborts ==
    (Terminated /\ fileState = "ok"
        /\ \E p \in 1..Len(IssueRuns) : IssueRuns[p].rc # 0) =>
        /\ pc = "done"
        /\ [k \in 1..Len(IssueRuns) |-> IssueRuns[k].cmd[5]]
              = [k \in 1..N |-> fileContent[k].title]

\* ---------------------------------------------------------------- C6
\* C6: every label-creation invocation precedes the first issue-creation
\* invocation, and by then the whole label set has been passed.
C6_LabelsBeforeIssues ==
    \A p \in 1..Len(trace) :
        IsIssueRun(trace[p]) =>
            /\ \A q \in 1..Len(trace) : IsLabelRun(trace[q]) => q < p
            /\ all_labels =
                  {trace[q].cmd[4] : q \in {r \in 1..p : IsLabelRun(trace[r])}}

C6_Witness ==
    /\ Len(LabelRuns) = 2
    /\ Len(IssueRuns) = 2

\* ---------------------------------------------------------------- C7
\* C7: whatever label-creation invocations fail, a finished run has passed
\* every label to label-creation and attempted every issue.
C7_LabelFailureIgnored ==
    (Terminated /\ fileState = "ok"
        /\ \E p \in 1..Len(LabelRuns) : LabelRuns[p].rc # 0) =>
        /\ {LabelRuns[p].cmd[4] : p \in 1..Len(LabelRuns)} = FileLabelUnion
        /\ Len(IssueRuns) = N

\* ---------------------------------------------------------------- C8
\* C8: each issue-creation invocation is followed by exactly one outcome
\* print: stdout as Success on exit code 0, stderr as Failed otherwise.
C8_ExactlyOneOutcome ==
    /\ Len(Outcomes) = Len(IssueRuns)
    /\ \A p \in 1..Len(trace) :
          IsIssueRun(trace[p]) =>
              /\ p < Len(trace)
              /\ IsOutcome(trace[p + 1])
              /\ trace[p].rc = 0 =>
                    /\ trace[p + 1].kind = "Success"
                    /\ trace[p + 1].arg = "stdout"
              /\ trace[p].rc # 0 =>
                    /\ trace[p + 1].kind = "Failed"
                    /\ trace[p + 1].arg = <<trace[p].cmd[5], "stderr">>
    /\ \A p \in 1..Len(trace) :
          IsOutcome(trace[p]) => (p > 1 /\ IsIssueRun(trace[p - 1]))

C8_Witness ==
    /\ Len(IssueRuns) = 2
    /\ IssueRuns[1].rc = 0
    /\ IssueRuns[2].rc = 1
    /\ Len(Outcomes) = 2

\* ---------------------------------------------------------------- C9
\* C9: a pause of 2 seconds follows each successful issue creation and
\* nothing else: one sleep right after each Success print, none after a
\* failed issue creation or a label creation.
C9_PauseOnlyAfterSuccess ==
    /\ \A p \in 1..Len(trace) :
          IsSleep(trace[p]) =>
              /\ trace[p].secs = 2
              /\ p > 2
              /\ IsOutcome(trace[p - 1]) /\ trace[p - 1].kind = "Success"
              /\ IsIssueRun(trace[p - 2]) /\ trace[p - 2].rc = 0
    /\ \A p \in 1..Len(trace) :
          (IsIssueRun(trace[p]) /\ trace[p].rc = 0) =>
              (p + 2 <= Len(trace) /\ IsSleep(trace[p + 2]))
    /\ Len(Sleeps) = Len(SelectSeq(IssueRuns, LAMBDA e : e.rc = 0))

C9_Witness ==
    /\ Len(LabelRuns) = 1
    /\ Len(IssueRuns) = 2
    /\ IssueRuns[1].rc = 1
    /\ IssueRuns[2].rc = 0
    /\ Len(Sleeps) = 1

\* --------------------------------------------------------------- C10
\* C10: with a malformed input file the run ends with the parse error
\* raised and no external invocation made.
C10_MalformedRaisesNoCalls ==
    fileState = "malformed" =>
        /\ pc \in {"start", "raised"}
        /\ LabelRuns = <<>>
        /\ IssueRuns = <<>>

C10_Witness ==
    /\ fileState = "malformed"
    /\ pc = "raised"
    /\ trace = <<>>

====
